---- MODULE Spec2Model ----
(***************************************************************************)
(* Model of nnef_tools/io/caffe2/reader.py: the Caffe / Caffe2 -> ONNX     *)
(* reader.  A Reader call is a sequence of stages (file loads, parameter   *)
(* fixups, external library calls); every stage is one action, the        *)
(* position of the call is pc, and events is the log of the file opens     *)
(* and calls made so far.                                                  *)
(***************************************************************************)
EXTENDS Integers, Sequences, FiniteSets, TLC

VARIABLES
    legacy,        \* Reader._legacy
    path,          \* the argument of Reader.__call__: [base, ext]
    fs,            \* the files on disk: name -> "missing" | "malformed" | "ok"
    pc,            \* position of the call
    prototxt,      \* caffe NetParameter read from the .prototxt
    caffemodel,    \* caffe NetParameter read from the .caffemodel
    inputs,        \* input_names / input_shapes of _caffe_to_caffe2
    predict_net,   \* caffe2 NetDef
    params,        \* names of the trained parameters returned by the translator
    init_net,      \* the initializer net: [params, input, built]
    value_info,    \* name -> <<element type, shape>>
    onnx_model,    \* [graph_name, opset, checked, inferred]
    events,        \* file opens and calls, in the order they happened
    result,        \* "pending" | "graph" | the exception that ended the call
    before         \* the arguments of the in-place stages, as they were given

vars == <<legacy, path, fs, pc, prototxt, caffemodel, inputs, predict_net, params,
          init_net, value_info, onnx_model, events, result, before>>

----------------------------------------------------------------------------
(* Bounds of the model *)

MaxArr == 3        \* longest kernel_size / stride / pad array
MaxCoeff == 4      \* longest Eltwise coefficient array
MaxBlobs == 3      \* most weight blobs of a model layer
MaxData == 1       \* most values of a weight blob
MaxArgs == 3       \* most arguments of an operator
MaxInputs == 2     \* most declared inputs / input shapes
MaxDimLen == 9     \* longest flat input_dim array

----------------------------------------------------------------------------
(* Program constants *)

_UnrecognizedAttribs == {"ws_nbytes_limit"}
OpsetVersion == 11
FLOAT == "FLOAT"

----------------------------------------------------------------------------
(* Sequence helpers: Python's del s[i], all(...), zip and slicing *)

Min(a, b) == IF a < b THEN a ELSE b

\* del s[i] with i a 0-based Python index
DelAt(s, i) == [k \in 1..(Len(s) - 1) |-> IF k <= i THEN s[k] ELSE s[k + 1]]

\* s[lo:hi] with Python's clipping of the bounds to the length
Slice(s, lo, hi) ==
    LET h == Min(hi, Len(s))
    IN  IF lo >= h THEN <<>> ELSE [k \in 1..(h - lo) |-> s[lo + k]]

\* all sequences over S of length 0..n
SeqUpTo(S, n) == UNION {[1..k -> S] : k \in 0..n}

----------------------------------------------------------------------------
(* Parameter fixups *)

\* A field of a parameter block is [rep, val]: a repeated field (a protobuf
\* container, which is a Sequence) holding val, or an optional scalar holding
\* the one value val[1].
Repeated(s) == [rep |-> TRUE, val |-> s]
Scalar(v) == [rep |-> FALSE, val |-> <<v>>]

\* isinstance(field, Sequence)
IsSequence(f) == f.rep

\* One of the three blocks of _fix_conv_pool_param: arr, h, w are field names.
FixFieldSwapped(param, arr, h, w) ==
    IF IsSequence(param[arr]) /\ Len(param[arr].val) = 2
    THEN [param EXCEPT ![h] = param[arr].val[2],
                       ![w] = param[arr].val[1],
                       ![arr] = Repeated(DelAt(DelAt(param[arr].val, 1), 0))]
    ELSE param

FixField(param, arr, h, w) ==
    IF IsSequence(param[arr]) /\ Len(param[arr].val) = 2
    THEN [param EXCEPT ![h] = param[arr].val[1],
                       ![w] = param[arr].val[2],
                       ![arr] = Repeated(DelAt(DelAt(param[arr].val, 1), 0))]
    ELSE param

_fix_conv_pool_param(param) ==
    LET p1 == FixField(param, "kernel_size", "kernel_h", "kernel_w")
        p2 == FixField(p1, "stride", "stride_h", "stride_w")
    IN  FixField(p2, "pad", "pad_h", "pad_w")

\* for i in reversed(range(n)): del coeff[i]
RECURSIVE DelReversed(_, _)
DelReversed(s, n) == IF n = 0 THEN s ELSE DelReversed(DelAt(s, n - 1), n - 1)

_fix_eltwise_param_any(param) ==
    IF Len(param.coeff) > 0 /\ \E i \in 1..Len(param.coeff) : param.coeff[i] = 1
    THEN [param EXCEPT !.coeff = DelReversed(param.coeff, Len(param.coeff))]
    ELSE param

_fix_eltwise_param(param) ==
    IF Len(param.coeff) > 0 /\ \A i \in 1..Len(param.coeff) : param.coeff[i] = 1
    THEN [param EXCEPT !.coeff = DelReversed(param.coeff, Len(param.coeff))]
    ELSE param

\* _fix_batch_norm_param changes blobs in place, or raises: the outcome is
\* [err, blobs] with err = "" when the call returns.
_fix_batch_norm_param(param, blobs) ==
    IF Len(blobs) > 2
    THEN IF Len(blobs[3].data) = 0
         THEN [err |-> "IndexError", blobs |-> blobs]
         ELSE IF blobs[3].data[1] = 0
              THEN [err |-> "", blobs |-> [blobs EXCEPT ![3].data[1] = 1]]
              ELSE [err |-> "", blobs |-> blobs]
    ELSE [err |-> "", blobs |-> blobs]

\* _find_model_layer: where the first model layer called name is, as
\* [field, idx]; field = "none" stands for None.
FirstNamed(layers, name) ==
    IF \E i \in 1..Len(layers) : layers[i].name = name
    THEN CHOOSE i \in 1..Len(layers) :
            /\ layers[i].name = name
            /\ \A j \in 1..(i - 1) : layers[j].name # name
    ELSE 0

_find_model_layer(cm, name) ==
    IF FirstNamed(cm.layer, name) # 0
    THEN [field |-> "layer", idx |-> FirstNamed(cm.layer, name)]
    ELSE IF FirstNamed(cm.layers, name) # 0
         THEN [field |-> "layers", idx |-> FirstNamed(cm.layers, name)]
         ELSE [field |-> "none", idx |-> 0]

\* model_layer.blobs if model_layer is not None else []
BlobsAt(cm, loc) == IF loc.field = "none" THEN <<>> ELSE cm[loc.field][loc.idx].blobs

\* the caffemodel after the in-place change of the blobs at loc
WithBlobs(cm, loc, blobs) ==
    IF loc.field = "none" THEN cm
    ELSE [cm EXCEPT ![loc.field][loc.idx].blobs = blobs]

\* One iteration of the loop over prototxt.layer in _caffe_to_caffe2, on
\* st = [prototxt, caffemodel, err].
FixLayer(st, i) ==
    LET layer == st.prototxt.layer[i]
    IN  IF layer.type \in {"Convolution", "Pooling"}
        THEN [st EXCEPT !.prototxt.layer[i].param = _fix_conv_pool_param(layer.param)]
        ELSE IF layer.type = "Eltwise"
        THEN [st EXCEPT !.prototxt.layer[i].param = _fix_eltwise_param(layer.param)]
        ELSE IF layer.type = "BatchNorm"
        THEN LET loc == _find_model_layer(st.caffemodel, layer.name)
                 out == _fix_batch_norm_param(layer.param, BlobsAt(st.caffemodel, loc))
             IN  [st EXCEPT !.caffemodel = WithBlobs(st.caffemodel, loc, out.blobs),
                            !.err = out.err]
        ELSE st

\* The loop from layer i on; an exception ends it.
RECURSIVE FixLayers(_, _)
FixLayers(st, i) ==
    IF i > Len(st.prototxt.layer) \/ st.err # "" THEN st
    ELSE FixLayers(FixLayer(st, i), i + 1)

----------------------------------------------------------------------------
(* Input names and shapes, value_info *)

\* input_shapes[i] = input_dims[4 * i: 4 * (i+1)] for i in range(n)
FlatShapes(input_dim, n) == [k \in 1..n |-> Slice(input_dim, 4 * (k - 1), 4 * k)]

\* the check of line 53, taking any multiple of 4 * n
FlatAcceptedMultiple(input_dim, n) ==
    \E m \in 0..Len(input_dim) : Len(input_dim) = m * 4 * n

\* assert len(input_dims) == 4 * len(input_names)
FlatAccepted(input_dim, n) == Len(input_dim) = 4 * n

\* Lines 45-56 of _caffe_to_caffe2: [err, names, shapes].
DetermineInputs(pt) ==
    IF Len(pt.layer) = 0
    THEN [err |-> "IndexError", names |-> <<>>, shapes |-> <<>>]
    ELSE IF pt.layer[1].type = "Input"
    THEN [err |-> "", names |-> pt.layer[1].top, shapes |-> pt.layer[1].param.shape]
    ELSE IF Len(pt.input_shape) # 0
    THEN [err |-> "", names |-> pt.input, shapes |-> pt.input_shape]
    ELSE IF FlatAccepted(pt.input_dim, Len(pt.input))
    THEN [err |-> "", names |-> pt.input,
          shapes |-> FlatShapes(pt.input_dim, Len(pt.input))]
    ELSE [err |-> "AssertionError", names |-> pt.input, shapes |-> <<>>]

\* {name: (FLOAT, shape) for name, shape in zip(names, shapes)}: zip stops at
\* the shorter sequence, and a later pair replaces an earlier one of the
\* same name.
ValueInfo(names, shapes) ==
    LET n == Min(Len(names), Len(shapes))
        last(nm) == CHOOSE i \in 1..n :
                        /\ names[i] = nm
                        /\ \A j \in (i + 1)..n : names[j] # nm
    IN  [nm \in {names[i] : i \in 1..n} |-> <<FLOAT, shapes[last(nm)]>>]

----------------------------------------------------------------------------
(* Attribute sanitizer *)

\* An argument name is [kind, text] with kind "str" or "bytes"; as_str
\* decodes bytes and leaves a str alone.
Str(t) == [kind |-> "str", text |-> t]
as_str(s) == IF s.kind = "bytes" THEN Str(s.text) ELSE s

\* for idx in reversed(range(n)): delete arg[idx] if its name is unrecognized
RECURSIVE RemoveArgs(_, _)
RemoveArgs(args, n) ==
    IF n = 0 THEN args
    ELSE IF as_str(args[n].name).text \in _UnrecognizedAttribs
         THEN RemoveArgs(DelAt(args, n - 1), n - 1)
         ELSE RemoveArgs(args, n - 1)

\* the same loop going forward over range(n): a deletion shifts the
\* arguments behind it, and the next index skips one
RECURSIVE RemoveArgsForward(_, _, _)
RemoveArgsForward(args, idx, n) ==
    IF idx >= n \/ idx >= Len(args) THEN args
    ELSE IF as_str(args[idx + 1].name).text \in _UnrecognizedAttribs
         THEN RemoveArgsForward(DelAt(args, idx), idx + 1, n)
         ELSE RemoveArgsForward(args, idx + 1, n)

_remove_unrecognized_attributes_forward(net_def) ==
    [net_def EXCEPT !.op = [i \in 1..Len(net_def.op) |->
        [net_def.op[i] EXCEPT !.arg = RemoveArgsForward(@, 0, Len(@))]]]

_remove_unrecognized_attributes(net_def) ==
    [net_def EXCEPT !.op = [i \in 1..Len(net_def.op) |->
        [net_def.op[i] EXCEPT !.arg = RemoveArgs(@, Len(@))]]]

----------------------------------------------------------------------------
(* Messages *)

\* caffe_pb2.NetParameter() and caffe2_pb2.NetDef(), empty as constructed
EmptyNetParameter ==
    [layer |-> <<>>, layers |-> <<>>, input |-> <<>>, input_shape |-> <<>>,
     input_dim |-> <<>>]
EmptyNetDef == [op |-> <<>>, external_input |-> <<>>, external_output |-> <<>>]

NoParam == [unset |-> TRUE]
Layer(name, type, top, param, blobs) ==
    [name |-> name, type |-> type, top |-> top, param |-> param, blobs |-> blobs]
Blob(data) == [data |-> data]
ConvPoolParam(ks, st, pd, hw) ==
    [kernel_size |-> ks, kernel_h |-> hw, kernel_w |-> hw,
     stride |-> st, stride_h |-> hw, stride_w |-> hw,
     pad |-> pd, pad_h |-> hw, pad_w |-> hw]
Op(input, output, arg) == [input |-> input, output |-> output, arg |-> arg]
Arg(text) == [name |-> Str(text)]

\* a prototxt with one declared input and the given layers
NetOf(layers) ==
    [EmptyNetParameter EXCEPT !.layer = layers, !.input = <<"data">>,
                              !.input_shape = << <<1, 3>> >>]

----------------------------------------------------------------------------
(* What the files of a Reader call may hold, and what the external         *)
(* translator may return                                                   *)

ConvLayer(ks) ==
    Layer("conv", "Convolution", <<"c">>,
          ConvPoolParam(Repeated(ks), Repeated(<<1, 1>>), Repeated(<<>>), 0), <<>>)
PoolLayer == Layer("pool", "Pooling", <<"p">>,
                   ConvPoolParam(Scalar(2), Scalar(2), Scalar(0), 0), <<>>)
EltLayer(coeff) == Layer("sum", "Eltwise", <<"s">>, [coeff |-> coeff], <<>>)
BNLayer == Layer("bn", "BatchNorm", <<"b">>, NoParam, <<>>)
InputLayer(tops, shapes) == Layer("data", "Input", tops, [shape |-> shapes], <<>>)

FilePrototxts ==
    { [EmptyNetParameter EXCEPT
          !.layer = <<InputLayer(<<"data">>, << <<1, 3, 4, 4>> >>), ConvLayer(<<3, 3>>)>>],
      [EmptyNetParameter EXCEPT
          !.layer = <<ConvLayer(<<3>>), PoolLayer, EltLayer(<<1, 1>>), BNLayer>>,
          !.input = <<"data">>, !.input_dim = <<1, 3, 4, 4>>],
      [EmptyNetParameter EXCEPT
          !.layer = <<InputLayer(<<"data", "aux">>, << <<1, 3>> >>), EltLayer(<<1, 2>>),
                      BNLayer, ConvLayer(<<3, 2>>)>>],
      [EmptyNetParameter EXCEPT
          !.layer = <<BNLayer>>,
          !.input = <<"data">>, !.input_shape = << <<1, 3>> >>],
      [EmptyNetParameter EXCEPT
          !.layer = <<ConvLayer(<<3, 3>>)>>,
          !.input = <<"data">>, !.input_dim = <<1, 3, 4, 4, 1, 3, 4, 4>>],
      EmptyNetParameter }

ModelLayer(name, blobs) == Layer(name, "", <<>>, NoParam, blobs)

FileCaffemodels ==
    { [EmptyNetParameter EXCEPT
          !.layer = <<ModelLayer("bn", <<Blob(<<2>>), Blob(<<2>>), Blob(<<0>>)>>)>>],
      [EmptyNetParameter EXCEPT
          !.layers = <<ModelLayer("bn", <<Blob(<<2>>), Blob(<<2>>), Blob(<<>>)>>)>>],
      EmptyNetParameter }

FileNets ==
    { [EmptyNetDef EXCEPT
          !.op = <<Op(<<"data", "w">>, <<"y">>, <<Arg("ws_nbytes_limit"), Arg("kernel")>>)>>],
      [EmptyNetDef EXCEPT
          !.op = <<Op(<<>>, <<"y">>, <<>>)>>],
      [EmptyNetDef EXCEPT
          !.op = <<Op(<<"data">>, <<"t">>, <<Arg("pad")>>), Op(<<"t">>, <<>>, <<>>)>>],
      EmptyNetDef }

FileValueInfos == { ValueInfo(<<"data">>, << <<1, 3, 4, 4>> >>), ValueInfo(<<>>, <<>>) }

Status == {"missing", "malformed", "ok"}

----------------------------------------------------------------------------
(* A Reader call *)

\* os.path.splitext(path)
splitext(p) == <<p.base, p.ext>>

Log(e) == events' = Append(events, e)

\* an exception ends the call
Raise(e) == pc' = "done" /\ result' = e

Goto(stage) == pc' = stage /\ UNCHANGED result

FreshInputs == [names |-> <<>>, shapes |-> <<>>]
FreshInitNet == [built |-> FALSE, params |-> <<>>, input |-> ""]
FreshModel == [graph |-> FALSE, graph_name |-> "", valid |-> FALSE, opset |-> 0,
               checked |-> 0, inferred |-> FALSE]
FreshBefore == [prototxt |-> EmptyNetParameter, caffemodel |-> EmptyNetParameter,
                predict_net |-> EmptyNetDef]

NoFiles == [prototxt |-> "missing", caffemodel |-> "missing", predict_net |-> "missing",
            init_net |-> "missing", value_info |-> "missing"]

\* Reader(legacy)(path), about to start
Init ==
    /\ legacy \in BOOLEAN
    /\ IF legacy
       THEN /\ path \in [base : {"net"}, ext : {".prototxt", ".caffemodel", ""}]
            /\ \E a, b \in Status : fs = [NoFiles EXCEPT !.prototxt = a, !.caffemodel = b]
       ELSE /\ path = [base |-> "folder", ext |-> ""]
            /\ \E a, b, c \in Status :
                  fs = [NoFiles EXCEPT !.predict_net = a, !.init_net = b, !.value_info = c]
    /\ pc = "call"
    /\ prototxt = EmptyNetParameter
    /\ caffemodel = EmptyNetParameter
    /\ inputs = FreshInputs
    /\ predict_net = EmptyNetDef
    /\ params = <<>>
    /\ init_net = FreshInitNet
    /\ value_info = <<>>
    /\ onnx_model = FreshModel
    /\ events = <<>>
    /\ result = "pending"
    /\ before = FreshBefore

\* Reader.__call__, line 197: the flag picks the loader
Dispatch ==
    /\ pc = "call"
    /\ Goto(IF legacy THEN "check_ext" ELSE "open_predict")
    /\ UNCHANGED <<legacy, path, fs, prototxt, caffemodel, inputs, predict_net, params,
                   init_net, value_info, onnx_model, events, before>>

\* load_caffe_model without the assertion on the extension
CheckExtUnchecked ==
    /\ pc = "check_ext"
    /\ Goto("open_prototxt")
    /\ UNCHANGED <<legacy, path, fs, prototxt, caffemodel, inputs, predict_net, params,
                   init_net, value_info, onnx_model, events, before>>

\* load_caffe_model, lines 150-151
CheckExt ==
    /\ pc = "check_ext"
    /\ IF splitext(path)[2] = ".prototxt" THEN Goto("open_prototxt")
       ELSE Raise("AssertionError")
    /\ UNCHANGED <<legacy, path, fs, prototxt, caffemodel, inputs, predict_net, params,
                   init_net, value_info, onnx_model, events, before>>

\* load_caffe_model, lines 153-155
OpenPrototxt ==
    /\ pc = "open_prototxt"
    /\ Log("open:prototxt")
    /\ IF fs.prototxt = "missing" THEN Raise("FileNotFoundError") /\ UNCHANGED prototxt
       ELSE IF fs.prototxt = "malformed" THEN Raise("ParseError") /\ UNCHANGED prototxt
       ELSE Goto("open_caffemodel") /\ prototxt' \in FilePrototxts
    /\ UNCHANGED <<legacy, path, fs, caffemodel, inputs, predict_net, params,
                   init_net, value_info, onnx_model, before>>

\* load_caffe_model, lines 156-160
OpenCaffemodel ==
    /\ pc = "open_caffemodel"
    /\ Log("open:caffemodel")
    /\ IF fs.caffemodel = "missing" THEN Raise("FileNotFoundError") /\ UNCHANGED caffemodel
       ELSE IF fs.caffemodel = "malformed" THEN Raise("DecodeError") /\ UNCHANGED caffemodel
       ELSE Goto("inputs") /\ caffemodel' \in FileCaffemodels
    /\ UNCHANGED <<legacy, path, fs, prototxt, inputs, predict_net, params,
                   init_net, value_info, onnx_model, before>>

\* _caffe_to_caffe2, lines 45-56
Inputs ==
    /\ pc = "inputs"
    /\ Log("inputs")
    /\ LET got == DetermineInputs(prototxt)
       IN  /\ inputs' = [names |-> got.names, shapes |-> got.shapes]
           /\ IF got.err = "" THEN Goto("fixups") ELSE Raise(got.err)
    /\ UNCHANGED <<legacy, path, fs, prototxt, caffemodel, predict_net, params,
                   init_net, value_info, onnx_model, before>>

\* _caffe_to_caffe2 with the loop of lines 58-68 left out
FixupsSkipped ==
    /\ pc = "fixups"
    /\ Log("fixups")
    /\ before' = [before EXCEPT !.prototxt = prototxt, !.caffemodel = caffemodel]
    /\ Goto("translate")
    /\ UNCHANGED <<legacy, path, fs, prototxt, caffemodel, inputs, predict_net, params,
                   init_net, value_info, onnx_model>>

\* _caffe_to_caffe2, lines 58-68
Fixups ==
    /\ pc = "fixups"
    /\ Log("fixups")
    /\ before' = [before EXCEPT !.prototxt = prototxt, !.caffemodel = caffemodel]
    /\ LET st == FixLayers([prototxt |-> prototxt, caffemodel |-> caffemodel,
                            err |-> ""], 1)
       IN  /\ prototxt' = st.prototxt
           /\ caffemodel' = st.caffemodel
           /\ IF st.err = "" THEN Goto("translate") ELSE Raise(st.err)
    /\ UNCHANGED <<legacy, path, fs, inputs, predict_net, params,
                   init_net, value_info, onnx_model>>

\* _caffe_to_caffe2, line 70: the external translator fails, or returns some
\* net and the names of some trained parameters
Translate ==
    /\ pc = "translate"
    /\ Log("TranslateModel")
    /\ \/ Raise("TranslateError") /\ UNCHANGED <<predict_net, params>>
       \/ /\ Goto("externals")
          /\ predict_net' \in FileNets
          /\ params' \in {<<>>, <<"w">>}
    /\ UNCHANGED <<legacy, path, fs, prototxt, caffemodel, inputs,
                   init_net, value_info, onnx_model, before>>

\* _caffe_to_caffe2, lines 73-78
Externals ==
    /\ pc = "externals"
    /\ Log("externals")
    /\ IF \/ Len(predict_net.op) = 0
          \/ Len(predict_net.op[1].input) = 0
          \/ Len(predict_net.op[Len(predict_net.op)].output) = 0
       THEN Raise("IndexError") /\ UNCHANGED predict_net
       ELSE /\ Goto("init_net")
            /\ predict_net' =
                 [predict_net EXCEPT
                    !.external_input = (@ \o <<predict_net.op[1].input[1]>>) \o params,
                    !.external_output =
                        @ \o <<predict_net.op[Len(predict_net.op)].output[1]>>]
    /\ UNCHANGED <<legacy, path, fs, prototxt, caffemodel, inputs, params,
                   init_net, value_info, onnx_model, before>>

\* _caffe_to_caffe2, line 79: the external initializer-net builder
InitNet ==
    /\ pc = "init_net"
    /\ Log("ConvertTensorProtosToInitNet")
    /\ \/ Raise("InitNetError") /\ UNCHANGED init_net
       \/ /\ Goto("value_info")
          /\ init_net' = [built |-> TRUE, params |-> params,
                          input |-> predict_net.op[1].input[1]]
    /\ UNCHANGED <<legacy, path, fs, prototxt, caffemodel, inputs, predict_net, params,
                   value_info, onnx_model, before>>

\* _caffe_to_caffe2, lines 81-83
MakeValueInfo ==
    /\ pc = "value_info"
    /\ Log("value_info")
    /\ value_info' = ValueInfo(inputs.names, inputs.shapes)
    /\ Goto("sanitize")
    /\ UNCHANGED <<legacy, path, fs, prototxt, caffemodel, inputs, predict_net, params,
                   init_net, onnx_model, before>>

\* load_caffe2_model, lines 171-173
OpenPredict ==
    /\ pc = "open_predict"
    /\ Log("open:predict_net.pb")
    /\ IF fs.predict_net = "missing"
       THEN Raise("FileNotFoundError") /\ UNCHANGED predict_net
       ELSE IF fs.predict_net = "malformed"
       THEN Raise("DecodeError") /\ UNCHANGED predict_net
       ELSE Goto("open_init") /\ predict_net' \in FileNets
    /\ UNCHANGED <<legacy, path, fs, prototxt, caffemodel, inputs, params,
                   init_net, value_info, onnx_model, before>>

\* load_caffe2_model, lines 175-177
OpenInit ==
    /\ pc = "open_init"
    /\ Log("open:init_net.pb")
    /\ IF fs.init_net = "missing"
       THEN Raise("FileNotFoundError") /\ UNCHANGED init_net
       ELSE IF fs.init_net = "malformed"
       THEN Raise("DecodeError") /\ UNCHANGED init_net
       ELSE Goto("open_value_info") /\ init_net' = [FreshInitNet EXCEPT !.built = TRUE]
    /\ UNCHANGED <<legacy, path, fs, prototxt, caffemodel, inputs, predict_net, params,
                   value_info, onnx_model, before>>

\* load_caffe2_model opening value_info.json only when it is there, with an
\* empty value_info otherwise
OpenValueInfoLenient ==
    /\ pc = "open_value_info"
    /\ Log("open:value_info.json")
    /\ IF fs.value_info = "malformed"
       THEN Raise("JSONDecodeError") /\ UNCHANGED value_info
       ELSE IF fs.value_info = "missing"
       THEN Goto("sanitize") /\ value_info' = ValueInfo(<<>>, <<>>)
       ELSE Goto("sanitize") /\ value_info' \in FileValueInfos
    /\ UNCHANGED <<legacy, path, fs, prototxt, caffemodel, inputs, predict_net, params,
                   init_net, onnx_model, before>>

\* load_caffe2_model, lines 179-182
OpenValueInfo ==
    /\ pc = "open_value_info"
    /\ Log("open:value_info.json")
    /\ IF fs.value_info = "missing"
       THEN Raise("FileNotFoundError") /\ UNCHANGED value_info
       ELSE IF fs.value_info = "malformed"
       THEN Raise("JSONDecodeError") /\ UNCHANGED value_info
       ELSE Goto("sanitize") /\ value_info' \in FileValueInfos
    /\ UNCHANGED <<legacy, path, fs, prototxt, caffemodel, inputs, predict_net, params,
                   init_net, onnx_model, before>>


\* load_caffe_model_as_onnx, line 166, and load_caffe2_model_as_onnx, line 187,
\* with the sanitizer's loop running forward
SanitizeForward ==
    /\ pc = "sanitize"
    /\ Log("sanitize")
    /\ before' = [before EXCEPT !.predict_net = predict_net]
    /\ predict_net' = _remove_unrecognized_attributes_forward(predict_net)
    /\ Goto("build")
    /\ UNCHANGED <<legacy, path, fs, prototxt, caffemodel, inputs, params,
                   init_net, value_info, onnx_model>>

\* load_caffe_model_as_onnx, line 166, and load_caffe2_model_as_onnx, line 187
Sanitize ==
    /\ pc = "sanitize"
    /\ Log("sanitize")
    /\ before' = [before EXCEPT !.predict_net = predict_net]
    /\ predict_net' = _remove_unrecognized_attributes(predict_net)
    /\ Goto("build")
    /\ UNCHANGED <<legacy, path, fs, prototxt, caffemodel, inputs, params,
                   init_net, value_info, onnx_model>>

\* _caffe2_net_to_onnx_model, lines 127-134: the external graph builder
\* fails, or returns a graph, named or not, that the checker will or will
\* not accept; the graph is wrapped in a model
BuildGraph ==
    /\ pc = "build"
    /\ Log("caffe2_net_to_onnx_graph")
    /\ \/ Raise("BuildError") /\ UNCHANGED onnx_model
       \/ /\ Goto("check")
          /\ \E name \in {"", "predict"}, valid \in BOOLEAN :
                onnx_model' = [onnx_model EXCEPT
                    !.graph = TRUE,
                    !.graph_name = IF name = "" THEN "Graph" ELSE name,
                    !.valid = valid,
                    !.opset = OpsetVersion]
    /\ UNCHANGED <<legacy, path, fs, prototxt, caffemodel, inputs, predict_net, params,
                   init_net, value_info, before>>

\* onnx.checker.check_model(model)
CheckModel(next) ==
    /\ Log("check_model")
    /\ IF onnx_model.valid
       THEN Goto(next) /\ onnx_model' = [onnx_model EXCEPT !.checked = @ + 1]
       ELSE Raise("ValidationError") /\ UNCHANGED onnx_model
    /\ UNCHANGED <<legacy, path, fs, prototxt, caffemodel, inputs, predict_net, params,
                   init_net, value_info, before>>

\* _caffe2_net_to_onnx_model, lines 135-136
Check ==
    /\ pc = "check"
    /\ CheckModel("recheck")

\* Reader.__call__ without the call of line 198
RecheckSkipped ==
    /\ pc = "recheck"
    /\ Goto("infer")
    /\ UNCHANGED <<legacy, path, fs, prototxt, caffemodel, inputs, predict_net, params,
                   init_net, value_info, onnx_model, events, before>>

\* Reader.__call__, line 198
Recheck ==
    /\ pc = "recheck"
    /\ CheckModel("infer")

\* Reader.__call__, line 199: external shape inference
InferShapes ==
    /\ pc = "infer"
    /\ Log("infer_shapes")
    /\ \/ Raise("InferenceError") /\ UNCHANGED onnx_model
       \/ Goto("adapt") /\ onnx_model' = [onnx_model EXCEPT !.inferred = TRUE]
    /\ UNCHANGED <<legacy, path, fs, prototxt, caffemodel, inputs, predict_net, params,
                   init_net, value_info, before>>

\* Reader.__call__, line 200: the external ONNX-graph adapter
Adapt ==
    /\ pc = "adapt"
    /\ Log("onnx_model_to_graph")
    /\ \/ Raise("AdapterError")
       \/ pc' = "done" /\ result' = "graph"
    /\ UNCHANGED <<legacy, path, fs, prototxt, caffemodel, inputs, predict_net, params,
                   init_net, value_info, onnx_model, before>>

Next ==
    \/ Dispatch
    \/ CheckExt \/ OpenPrototxt \/ OpenCaffemodel
    \/ Inputs \/ Fixups \/ Translate \/ Externals \/ InitNet \/ MakeValueInfo
    \/ OpenPredict \/ OpenInit \/ OpenValueInfo
    \/ Sanitize \/ BuildGraph \/ Check \/ Recheck \/ InferShapes \/ Adapt

Spec == Init /\ [][Next]_vars

----------------------------------------------------------------------------
(* The stages on their own, each from every input of a bounded set *)

\* a legacy call that has read pt and cm and is about to run stage
LegacyAt(stage, pt, cm) ==
    /\ legacy = TRUE
    /\ path = [base |-> "net", ext |-> ".prototxt"]
    /\ fs = [NoFiles EXCEPT !.prototxt = "ok", !.caffemodel = "ok"]
    /\ pc = stage
    /\ prototxt = pt
    /\ caffemodel = cm
    /\ inputs = IF stage = "inputs" THEN FreshInputs
                ELSE [names |-> DetermineInputs(pt).names,
                      shapes |-> DetermineInputs(pt).shapes]
    /\ predict_net = EmptyNetDef
    /\ params = <<>>
    /\ init_net = FreshInitNet
    /\ value_info = <<>>
    /\ onnx_model = FreshModel
    /\ events = IF stage = "inputs" THEN <<"open:prototxt", "open:caffemodel">>
                ELSE <<"open:prototxt", "open:caffemodel", "inputs">>
    /\ result = "pending"
    /\ before = FreshBefore

\* a native call that has read net and is about to run the sanitizer
NativeAtSanitize(net) ==
    /\ legacy = FALSE
    /\ path = [base |-> "folder", ext |-> ""]
    /\ fs = [NoFiles EXCEPT !.predict_net = "ok", !.init_net = "ok", !.value_info = "ok"]
    /\ pc = "sanitize"
    /\ prototxt = EmptyNetParameter
    /\ caffemodel = EmptyNetParameter
    /\ inputs = FreshInputs
    /\ predict_net = net
    /\ params = <<>>
    /\ init_net = [FreshInitNet EXCEPT !.built = TRUE]
    /\ value_info = ValueInfo(<<"data">>, << <<1, 3, 4, 4>> >>)
    /\ onnx_model = FreshModel
    /\ events = <<"open:predict_net.pb", "open:init_net.pb", "open:value_info.json">>
    /\ result = "pending"
    /\ before = FreshBefore

Dims == {1, 2}
Arrays == {Repeated(s) : s \in SeqUpTo(Dims, MaxArr)}
Scalars == {Scalar(v) : v \in Dims}

ConvLayerOf(ks, st, pd, hw) ==
    Layer("conv", "Convolution", <<"c">>, ConvPoolParam(ks, st, pd, hw), <<>>)
PoolLayerOf(ks, st, pd, hw) ==
    Layer("pool", "Pooling", <<"p">>, ConvPoolParam(ks, st, pd, hw), <<>>)

\* one Convolution layer with repeated fields, or one Pooling layer with
\* scalar fields; hw is what the six height/width scalars hold
InitConvPool ==
    \E type \in {"Convolution", "Pooling"}, hw \in {0, 5} :
        \E ks, st, pd \in (IF type = "Convolution" THEN Arrays ELSE Scalars) :
            LegacyAt("fixups",
                     NetOf(<<IF type = "Convolution" THEN ConvLayerOf(ks, st, pd, hw)
                             ELSE PoolLayerOf(ks, st, pd, hw)>>),
                     EmptyNetParameter)

SpecConvPool == InitConvPool /\ [][Fixups]_vars

Coeffs == {0, 1, 2}
EltwiseLayers == {EltLayer(c) : c \in SeqUpTo(Coeffs, MaxCoeff)}

InitEltwise ==
    \E layer \in EltwiseLayers : LegacyAt("fixups", NetOf(<<layer>>), EmptyNetParameter)

SpecEltwise == InitEltwise /\ [][Fixups]_vars

\* Weight blobs, and where the model layer "bn" that holds them is: in
\* caffemodel.layer, in caffemodel.layers, in neither, or behind or before
\* other layers; Decoy would change if the wrong blobs were patched.
BlobLists == SeqUpTo({Blob(d) : d \in SeqUpTo({0, 2}, MaxData)}, MaxBlobs)
Decoy == <<Blob(<<0>>), Blob(<<0>>), Blob(<<0>>)>>

BNPlaces == {"layer", "layers", "absent", "behind", "before"}

BNCaffemodel(place, b) ==
    CASE place = "layer" ->
           [EmptyNetParameter EXCEPT !.layer = <<ModelLayer("bn", b)>>]
      [] place = "layers" ->
           [EmptyNetParameter EXCEPT !.layer = <<ModelLayer("other", Decoy)>>,
                                     !.layers = <<ModelLayer("bn", b)>>]
      [] place = "absent" ->
           [EmptyNetParameter EXCEPT !.layer = <<ModelLayer("other", b)>>,
                                     !.layers = <<ModelLayer("other", Decoy)>>]
      [] place = "behind" ->
           [EmptyNetParameter EXCEPT !.layer = <<ModelLayer("other", Decoy),
                                                 ModelLayer("bn", b)>>,
                                     !.layers = <<ModelLayer("bn", Decoy)>>]
      [] place = "before" ->
           [EmptyNetParameter EXCEPT !.layer = <<ModelLayer("bn", b),
                                                 ModelLayer("bn", Decoy)>>]

InitBatchNorm ==
    \E place \in BNPlaces, b \in BlobLists :
        LegacyAt("fixups", NetOf(<<BNLayer>>), BNCaffemodel(place, b))

SpecBatchNorm == InitBatchNorm /\ [][Fixups]_vars

\* Argument lists, and nets of no operator, of one, and of two with the
\* list in the first or the second.
ArgNames == {"ws_nbytes_limit", "kernel", "pad", "order"}
ArgLists == SeqUpTo({Arg(t) : t \in ArgNames}, MaxArgs)
FixedArgs == <<Arg("ws_nbytes_limit"), Arg("kernel"), Arg("ws_nbytes_limit")>>

AttribShapes == {"none", "one", "first", "second"}

AttribNet(shape, a) ==
    CASE shape = "none" -> EmptyNetDef
      [] shape = "one" ->
           [EmptyNetDef EXCEPT !.op = <<Op(<<"data">>, <<"y">>, a)>>]
      [] shape = "first" ->
           [EmptyNetDef EXCEPT !.op = <<Op(<<"data">>, <<"t">>, a),
                                        Op(<<"t">>, <<"y">>, FixedArgs)>>]
      [] shape = "second" ->
           [EmptyNetDef EXCEPT !.op = <<Op(<<"data">>, <<"t">>, FixedArgs),
                                        Op(<<"t">>, <<"y">>, a)>>]

InitAttribs ==
    \E shape \in AttribShapes, a \in ArgLists : NativeAtSanitize(AttribNet(shape, a))

SpecAttribs == InitAttribs /\ [][Sanitize]_vars

\* Declared inputs: an Input layer or none first, names, shapes, and a flat
\* input_dim that is a prefix of 1, 2, 3, ...
Names == {"data", "aux"}
Shapes == {<<1, 3>>, <<2>>}
NameLists == SeqUpTo(Names, MaxInputs)
ShapeLists == SeqUpTo(Shapes, MaxInputs)
FlatDims == {[k \in 1..n |-> k] : n \in 0..MaxDimLen}

InputPrototxts ==
    {EmptyNetParameter}
    \cup
    {[EmptyNetParameter EXCEPT !.layer = <<InputLayer(t, sh)>>, !.input_dim = d] :
        t \in NameLists, sh \in ShapeLists, d \in {<<>>, <<1, 2, 3, 4>>}}
    \cup
    {[EmptyNetParameter EXCEPT !.layer = <<PoolLayer>>, !.input = n,
                               !.input_shape = sh, !.input_dim = d] :
        n \in NameLists, sh \in ShapeLists, d \in FlatDims}

InitInputs == \E pt \in InputPrototxts : LegacyAt("inputs", pt, EmptyNetParameter)

SpecInputs == InitInputs /\ [][Inputs]_vars

----------------------------------------------------------------------------
(* Properties *)

Ran(stage) == \E i \in 1..Len(events) : events[i] = stage
Count(e) == Cardinality({i \in 1..Len(events) : events[i] = e})
Failed == result \notin {"pending", "graph"}

ConvPoolFields ==
    { <<"kernel_size", "kernel_h", "kernel_w">>,
      <<"stride", "stride_h", "stride_w">>,
      <<"pad", "pad_h", "pad_w">> }

\* C1: after the fixups, for kernel_size, stride and pad of every
\* Convolution/Pooling block: an array of exactly two elements [a, b] has
\* become height a, width b and an empty array; an absent array or one of any
\* other length has left the array and its two scalars as they were.
C1_ConvPoolSplit ==
    Ran("fixups") =>
        \A i \in 1..Len(before.prototxt.layer) :
            before.prototxt.layer[i].type \in {"Convolution", "Pooling"} =>
                \A f \in ConvPoolFields :
                    LET old == before.prototxt.layer[i].param
                        new == prototxt.layer[i].param
                    IN  IF old[f[1]].rep /\ Len(old[f[1]].val) = 2
                        THEN /\ new[f[2]] = old[f[1]].val[1]
                             /\ new[f[3]] = old[f[1]].val[2]
                             /\ new[f[1]] = [rep |-> TRUE, val |-> <<>>]
                        ELSE /\ new[f[1]] = old[f[1]]
                             /\ new[f[2]] = old[f[2]]
                             /\ new[f[3]] = old[f[3]]

\* a Convolution block with kernel_size [1, 2], a stride of three elements
\* and pad [2, 1] went through the fixups
C1_Witness ==
    /\ Ran("fixups")
    /\ Len(before.prototxt.layer) = 1
    /\ before.prototxt.layer[1].type = "Convolution"
    /\ before.prototxt.layer[1].param.kernel_size.val = <<1, 2>>
    /\ Len(before.prototxt.layer[1].param.stride.val) = 3
    /\ before.prototxt.layer[1].param.pad.val = <<2, 1>>
    /\ before.prototxt.layer[1].param.kernel_h = 5
    /\ prototxt.layer[1].param.kernel_h = 1
    /\ prototxt.layer[1].param.kernel_w = 2
    /\ prototxt.layer[1].param.stride_h = 5
    /\ prototxt.layer[1].param.pad_h = 2

\* C2: after the fixups, every Eltwise coefficient array whose coefficients
\* all equal 1 is empty (an empty one stays empty), and one with a
\* coefficient other than 1 has the same elements in the same order.
C2_EltwiseCoeff ==
    Ran("fixups") =>
        \A i \in 1..Len(before.prototxt.layer) :
            before.prototxt.layer[i].type = "Eltwise" =>
                LET old == before.prototxt.layer[i].param.coeff
                    new == prototxt.layer[i].param.coeff
                IN  IF \A k \in 1..Len(old) : old[k] = 1
                    THEN new = <<>>
                    ELSE new = old

\* the coefficients [1, 1, 1] went through the fixups
C2_Witness ==
    /\ Ran("fixups")
    /\ Len(before.prototxt.layer) = 1
    /\ before.prototxt.layer[1].type = "Eltwise"
    /\ before.prototxt.layer[1].param.coeff = <<1, 1, 1>>
    /\ prototxt.layer[1].param.coeff = <<>>

\* The caffemodel the BatchNorm fixup is to leave: the first value of the
\* third blob of the blobs found for the layer is 1 if it was 0, and nothing
\* else differs.
BatchNormExpected(cm, name) ==
    LET loc == _find_model_layer(cm, name)
        blobs == BlobsAt(cm, loc)
    IN  IF Len(blobs) >= 3 /\ Len(blobs[3].data) > 0 /\ blobs[3].data[1] = 0
        THEN [cm EXCEPT ![loc.field][loc.idx].blobs[3].data[1] = 1]
        ELSE cm

\* C3: the BatchNorm fixup completes without error in every case; with three
\* or more blobs found a first value 0 of the third blob has become 1 and
\* any other value is unchanged; with fewer blobs, or no model layer of that
\* name in caffemodel.layer or caffemodel.layers, nothing has changed; no
\* other blob or value is modified.
C3_BatchNormFix ==
    (Ran("fixups") /\ Len(before.prototxt.layer) = 1
                   /\ before.prototxt.layer[1].type = "BatchNorm") =>
        /\ ~Failed
        /\ caffemodel = BatchNormExpected(before.caffemodel, before.prototxt.layer[1].name)
        /\ prototxt = before.prototxt

\* the same without the claim that the call always completes
C3_BatchNormValues ==
    (Ran("fixups") /\ Len(before.prototxt.layer) = 1
                   /\ before.prototxt.layer[1].type = "BatchNorm") =>
        /\ caffemodel = BatchNormExpected(before.caffemodel, before.prototxt.layer[1].name)
        /\ prototxt = before.prototxt
        /\ Failed =>
             LET blobs == BlobsAt(before.caffemodel,
                                  _find_model_layer(before.caffemodel, "bn"))
             IN  Len(blobs) >= 3 /\ blobs[3].data = <<>> /\ result = "IndexError"

OpenEvents ==
    {"open:prototxt", "open:caffemodel", "open:predict_net.pb", "open:init_net.pb",
     "open:value_info.json"}

\* C4: a legacy call with a path whose extension is not exactly ".prototxt"
\* fails with the assertion, and no file is opened in it: neither the
\* prototxt nor the .caffemodel.
C4_ExtensionBeforeIO ==
    (legacy /\ path.ext # ".prototxt") =>
        /\ \A i \in 1..Len(events) : events[i] \notin OpenEvents
        /\ result # "graph"
        /\ pc \in {"call", "check_ext", "done"}
        /\ pc = "done" => result = "AssertionError"

\* a call on net.caffemodel, with both files on disk, has ended
C4_Witness ==
    /\ legacy
    /\ path.ext = ".caffemodel"
    /\ fs.prototxt = "ok" /\ fs.caffemodel = "ok"
    /\ pc = "done"
    /\ result = "AssertionError"

\* what a native call without value_info.json returns and runs, whatever
\* the other two files are
NativeNothingReturned ==
    /\ result # "graph"
    /\ pc \in {"call", "open_predict", "open_init", "open_value_info", "done"}
    /\ ~Ran("sanitize")
    /\ ~Ran("caffe2_net_to_onnx_graph")
    /\ onnx_model = FreshModel

\* C5 as stated: in native mode without value_info.json, whether or not
\* predict_net.pb and init_net.pb are present and well-formed, the call ends
\* in a file-not-found failure, returns nothing and runs neither the
\* sanitizer nor the graph builder.
C5_AlwaysFileNotFound ==
    (~legacy /\ fs.value_info = "missing") =>
        /\ NativeNothingReturned
        /\ pc = "done" => result = "FileNotFoundError"

\* C5 amended: in native mode without value_info.json the call fails,
\* returns nothing and runs neither the sanitizer nor the graph builder; the
\* failure is file-not-found unless predict_net.pb, or init_net.pb behind a
\* well-formed predict_net.pb, is malformed, and then it is that file's
\* parse error.
C5_MissingValueInfoFails ==
    (~legacy /\ fs.value_info = "missing") =>
        /\ NativeNothingReturned
        /\ pc = "done" =>
             result = IF \/ fs.predict_net = "malformed"
                         \/ fs.predict_net = "ok" /\ fs.init_net = "malformed"
                      THEN "DecodeError"
                      ELSE "FileNotFoundError"

\* both nets were read, value_info.json was not there
C5_Witness ==
    /\ ~legacy
    /\ fs = [NoFiles EXCEPT !.predict_net = "ok", !.init_net = "ok"]
    /\ pc = "done"
    /\ result = "FileNotFoundError"
    /\ events = <<"open:predict_net.pb", "open:init_net.pb", "open:value_info.json">>

ExternalCalls ==
    {"TranslateModel", "ConvertTensorProtosToInitNet", "caffe2_net_to_onnx_graph",
     "check_model", "infer_shapes", "onnx_model_to_graph"}

\* C6 as stated: in a successful conversion every external call (translator,
\* initializer-net builder, graph builder, model validation, shape
\* inference, graph adapter) was invoked exactly once, for legacy true and
\* false.
C6_EachExactlyOnce ==
    result = "graph" => \A e \in ExternalCalls : Count(e) = 1

\* how often a successful conversion invokes an external call
CallsPerConversion(e) ==
    IF e = "check_model" THEN 2
    ELSE IF e \in {"TranslateModel", "ConvertTensorProtosToInitNet"}
         THEN (IF legacy THEN 1 ELSE 0)
         ELSE 1

\* C6 amended: a successful conversion has invoked the graph builder, shape
\* inference and the graph adapter exactly once each, model validation
\* exactly twice (in the assembly and again in the Reader), and the
\* translator and the initializer-net builder exactly once with legacy true
\* and not at all with legacy false; no call is ever invoked more often
\* than that (no retries).
C6_CallCounts ==
    /\ \A e \in ExternalCalls : Count(e) <= CallsPerConversion(e)
    /\ result = "graph" => \A e \in ExternalCalls : Count(e) = CallsPerConversion(e)

\* a legacy conversion has returned its graph
C6_Witness ==
    /\ legacy
    /\ result = "graph"
    /\ Count("check_model") = 2
    /\ Count("TranslateModel") = 1

\* the stages of the two pipelines, in the order of the code
LegacyOrder ==
    <<"open:prototxt", "open:caffemodel", "inputs", "fixups", "TranslateModel",
      "externals", "ConvertTensorProtosToInitNet", "value_info", "sanitize",
      "caffe2_net_to_onnx_graph", "check_model", "check_model", "infer_shapes",
      "onnx_model_to_graph">>
NativeOrder ==
    <<"open:predict_net.pb", "open:init_net.pb", "open:value_info.json", "sanitize",
      "caffe2_net_to_onnx_graph", "check_model", "check_model", "infer_shapes",
      "onnx_model_to_graph">>

\* no fixup is left to do on any Convolution/Pooling/Eltwise/BatchNorm layer
AllPatched ==
    \A i \in 1..Len(prototxt.layer) :
        LET layer == prototxt.layer[i]
        IN  /\ layer.type \in {"Convolution", "Pooling"} =>
                  \A f \in ConvPoolFields :
                      ~(layer.param[f[1]].rep /\ Len(layer.param[f[1]].val) = 2)
            /\ layer.type = "Eltwise" =>
                  ~(Len(layer.param.coeff) > 0
                    /\ \A k \in 1..Len(layer.param.coeff) : layer.param.coeff[k] = 1)
            /\ layer.type = "BatchNorm" =>
                  LET blobs == BlobsAt(caffemodel, _find_model_layer(caffemodel, layer.name))
                  IN  Len(blobs) >= 3 => (Len(blobs[3].data) > 0 /\ blobs[3].data[1] # 0)

StagesInOrder ==
    LET order == IF legacy THEN LegacyOrder ELSE NativeOrder
    IN  /\ Len(events) <= Len(order)
        /\ events = SubSeq(order, 1, Len(events))
        /\ result = "graph" => events = order
        /\ Failed => pc = "done"
        /\ pc = "done" => result # "pending"
        /\ Ran("TranslateModel") => AllPatched

\* C7: a Reader call runs the stages of the pipeline its legacy flag selects
\* in one fixed order (legacy: load, fixups of every layer, translate,
\* sanitize, build, validate, re-validate, infer, adapt; native: load,
\* sanitize, build, validate, re-validate, infer, adapt); a stage starts only
\* after every earlier one succeeded, the translator is called only with
\* every layer patched, and after a failure no stage runs and no graph is
\* returned.
C7_StageOrder ==
    /\ []StagesInOrder
    /\ [][result = "pending" /\ legacy' = legacy]_vars

\* a legacy conversion went through every stage and returned its graph
C7_Witness ==
    /\ legacy
    /\ result = "graph"
    /\ events = LegacyOrder
    /\ Len(prototxt.layer) > 1

\* a legacy conversion stopped at a failing translator
C7_WitnessFailure ==
    /\ legacy
    /\ result = "TranslateError"
    /\ events = SubSeq(LegacyOrder, 1, 5)

Unrecognized(a) == a.name.text \in _UnrecognizedAttribs
Recognized(a) == ~Unrecognized(a)

\* C8: after the sanitizer no argument of any operator has a name of the
\* denylist, the other arguments of each operator are the original ones in
\* their original order, and the operators are the same in number and order;
\* a second call changes nothing, and a net without such arguments is left
\* as it was.
C8_AttributesRemoved ==
    Ran("sanitize") =>
        LET old == before.predict_net
            new == predict_net
        IN  /\ Len(new.op) = Len(old.op)
            /\ \A i \in 1..Len(old.op) :
                  /\ \A k \in 1..Len(new.op[i].arg) : Recognized(new.op[i].arg[k])
                  /\ new.op[i].arg = SelectSeq(old.op[i].arg, Recognized)
                  /\ new.op[i].input = old.op[i].input
                  /\ new.op[i].output = old.op[i].output
            /\ new.external_input = old.external_input
            /\ new.external_output = old.external_output
            /\ _remove_unrecognized_attributes(new) = new
            /\ (\A i \in 1..Len(old.op) : \A k \in 1..Len(old.op[i].arg) :
                    Recognized(old.op[i].arg[k])) => new = old

\* an operator with two adjacent unrecognized arguments at the front went
\* through the sanitizer, next to one with such arguments at both ends
C8_Witness ==
    /\ Ran("sanitize")
    /\ Len(before.predict_net.op) = 2
    /\ before.predict_net.op[1].arg =
          <<Arg("ws_nbytes_limit"), Arg("ws_nbytes_limit"), Arg("pad")>>
    /\ before.predict_net.op[2].arg = FixedArgs
    /\ predict_net.op[1].arg = <<Arg("pad")>>
    /\ predict_net.op[2].arg = <<Arg("kernel")>>

\* the first layer is not an Input layer and there is no input_shape
UsesFlat(pt) ==
    Len(pt.layer) > 0 /\ pt.layer[1].type # "Input" /\ Len(pt.input_shape) = 0

Multiple(a, b) == \E m \in 0..a : a = m * b

\* input i (0-based) has the four values input_dim[4i .. 4i+3]
FlatShapesGiven ==
    /\ Len(inputs.shapes) = Len(prototxt.input)
    /\ \A i \in 0..(Len(prototxt.input) - 1) :
          inputs.shapes[i + 1] = <<prototxt.input_dim[4 * i + 1], prototxt.input_dim[4 * i + 2],
                                   prototxt.input_dim[4 * i + 3], prototxt.input_dim[4 * i + 4]>>

\* the flat encoding played no part: no assertion, and the shapes are the
\* declared ones
FlatNotConsulted ==
    (Ran("inputs") /\ Len(prototxt.layer) > 0 /\ ~UsesFlat(prototxt)) =>
        /\ result # "AssertionError"
        /\ inputs.shapes = IF prototxt.layer[1].type = "Input"
                           THEN prototxt.layer[1].param.shape
                           ELSE prototxt.input_shape

\* C9 as stated: with the flat encoding in use, the call fails with an
\* assertion if the length of input_dim is not a multiple of 4 times the
\* number of declared inputs and is accepted otherwise, input i then having
\* the shape input_dim[4i .. 4i+3]; the flat encoding is not consulted when
\* the first layer is Input or input_shape is not empty.
C9_FlatMultipleOf4 ==
    /\ (Ran("inputs") /\ UsesFlat(prototxt)) =>
          IF Multiple(Len(prototxt.input_dim), 4 * Len(prototxt.input))
          THEN result = "pending" /\ FlatShapesGiven
          ELSE result = "AssertionError"
    /\ FlatNotConsulted

\* C9 amended: with the flat encoding in use, the call fails with an
\* assertion if the length of input_dim is not equal to 4 times the number
\* of declared inputs and is accepted otherwise, input i then having the
\* shape input_dim[4i .. 4i+3]; the flat encoding is not consulted when the
\* first layer is Input or input_shape is not empty.
C9_FlatExactly4 ==
    /\ (Ran("inputs") /\ UsesFlat(prototxt)) =>
          IF Len(prototxt.input_dim) = 4 * Len(prototxt.input)
          THEN result = "pending" /\ FlatShapesGiven
          ELSE result = "AssertionError"
    /\ FlatNotConsulted

\* two inputs with eight flat dimensions were accepted
C9_Witness ==
    /\ Ran("inputs")
    /\ UsesFlat(prototxt)
    /\ prototxt.input = <<"data", "aux">>
    /\ Len(prototxt.input_dim) = 8
    /\ result = "pending"
    /\ inputs.shapes = << <<1, 2, 3, 4>>, <<5, 6, 7, 8>> >>

\* one input with eight flat dimensions was refused
C9_WitnessRefused ==
    /\ Ran("inputs")
    /\ UsesFlat(prototxt)
    /\ prototxt.input = <<"data">>
    /\ Len(prototxt.input_dim) = 8
    /\ result = "AssertionError"

\* C10: in the legacy path value_info has exactly one entry for every
\* declared input name, none dropped when fewer shapes than names are
\* declared, each with the float element type and the shape declared for
\* that input, and the network's external input (the first input of the
\* first translated operator) is one of its keys.
C10_ValueInfoComplete ==
    (legacy /\ Ran("value_info")) =>
        /\ DOMAIN value_info = {inputs.names[i] : i \in 1..Len(inputs.names)}
        /\ \A i \in 1..Len(inputs.names) :
              /\ i <= Len(inputs.shapes)
              /\ value_info[inputs.names[i]] = <<FLOAT, inputs.shapes[i]>>
        /\ predict_net.external_input[1] \in DOMAIN value_info

====
